---- MODULE Spec2Model ----
(***************************************************************************)
(* Model of the YouTube bulk uploader Cloud Function (src/gcp/main.py):    *)
(* one invocation of main() reads the channel's uploads (the catalog),     *)
(* scans the Drive folder tree (the store), computes the list of new       *)
(* videos and, for each of them in turn, downloads it, uploads it with the *)
(* retrying resumable upload, applies the post-upload action and appends   *)
(* a row to the Logs tab of the spreadsheet.                               *)
(*                                                                         *)
(* Names and ids are sequences of one-character strings, so that           *)
(* os.path.splitext is computed as the library computes it.  Every remote  *)
(* request has its outcomes chosen by the environment: success, an         *)
(* HttpError, or an error of another kind.                                 *)
(***************************************************************************)
EXTENDS Integers, Sequences, FiniteSets, TLC

VARIABLES
  config,            \* Config: drive_root_folder_id, post_upload_action, ...
  drive,             \* the store: node -> [name, parent, present]
  denied,            \* folders whose files().list request is refused
  catalog,           \* the channel's uploads playlist: sequence of video ids
  issued,            \* number of video ids the Publish API has handed out
  sheetTab,          \* the Logs tab: "absent", "bare" (no header), "header"
  logRows,           \* rows appended to the Logs tab
  localFiles,        \* names of the files in the function's working directory
  pc,                \* position of main()
  youtube_video_ids, \* main: set of published ids used by the diff
  drive_videos,      \* main: result of recursive_drive_search
  videos_to_upload,  \* main: the work list
  idx,               \* main: index of the current item of the work list
  retry,             \* _resumable_upload: retry counter
  sleep_time,        \* _resumable_upload: last backoff delay (in 1/JitterSteps s)
  chunkCalls,        \* _resumable_upload: next_chunk calls of this session
  sleeps,            \* _resumable_upload: time.sleep calls of this session
  progressed,        \* _resumable_upload: non-terminal chunk results so far
  last_error,        \* _resumable_upload: the exception next_chunk raised last
  youtube_video_id,  \* main: id returned by the upload of the current item
  action_details,    \* main: outcome of handle_post_upload_action
  outcome,           \* how main ended: the returned result or the exception
  downloads,         \* trace: file ids passed to download_file_from_drive
  uploads,           \* trace: [file, vid] of every upload that returned an id
  failed,            \* trace: file ids whose download or upload failed
  postCalls,         \* trace: [file, vid] of every handle_post_upload_action call
  storeCalls,        \* trace: [op, file] of every Store API request of a post-action
  cli,               \* the upload session of a command-line script (resumable_upload)
  cancelled,         \* the caller has asked for the batch to be cancelled
  metadata,          \* main: the listing entry of an item and the insert body made of it
  cliMain            \* main of a command-line script: its loop over the rows of the sheet

vars == <<config, drive, denied, catalog, issued, sheetTab, logRows, localFiles,
          pc, youtube_video_ids, drive_videos, videos_to_upload, idx, retry,
          sleep_time, chunkCalls, sleeps, progressed, youtube_video_id,
          action_details, outcome, downloads, uploads, failed, postCalls,
          storeCalls, last_error, cli, cancelled, metadata,
          cliMain>>

-----------------------------------------------------------------------------
(* Program constants *)

MAX_RETRIES == 10
RETRIABLE_STATUS_CODES == {500, 502, 503, 504}

(* Bounds of the model *)

JitterSteps == 2      \* random.random() is one of 0/JitterSteps .. (JitterSteps-1)/JitterSteps
MaxProgress == 1      \* non-terminal chunk results per upload session
MaxRows == 2          \* rows of the upload list a command-line script reads
DrivePageSize == 2    \* files per page of a files().list response
PlaylistPageSize == 1 \* items per page of a playlistItems().list response

-----------------------------------------------------------------------------
(* Generic helpers *)

Min(a, b) == IF a < b THEN a ELSE b

RECURSIVE Pow2(_)
Pow2(n) == IF n = 0 THEN 1 ELSE 2 * Pow2(n - 1)

Range(s) == {s[i] : i \in 1..Len(s)}

\* Last index of character c in p, 0 when absent (Python's rfind, 1-based).
RFind(p, c) ==
  LET hits == {i \in 1..Len(p) : p[i] = c}
  IN IF hits = {} THEN 0 ELSE CHOOSE i \in hits : \A j \in hits : j <= i

-----------------------------------------------------------------------------
(* The data of the model *)

\* The ids the Publish API hands out to new uploads (an id is never handed
\* out twice, and never contains a dot or a slash), and the uploads playlist
\* of the channel before the run.
FreshIds == << <<"x">>, <<"y">>, <<"z">> >>

Catalogs == { <<>>, << <<"a">>, <<"b">> >> }

\* The folder tree under the configured root "r".  "done" is the completed
\* folder, outside the tree.
Root == "r"
CompletedFolder == "done"
NodeOrder == <<"f1", "d1", "g", "f2", "f3", "t", "d2">>
Nodes == Range(NodeOrder)
Videos == {"f1", "f2", "f3"}
\* mimeType as <<type, subtype>>: "video/mp4" is <<"video", "mp4">>.
FolderMimeType == <<"application", "vnd.google-apps.folder">>
MimeType == [n \in Nodes |->
               IF n \in {"d1", "d2"} THEN FolderMimeType
               ELSE IF n = "g" THEN <<"application", "pdf">>
               ELSE IF n = "f2" THEN <<"video", "quicktime">>
               ELSE <<"video", "mp4">>]
Trashed == [n \in Nodes |-> n = "t"]
Parent0 == [n \in Nodes |-> IF n \in {"f3", "t", "d2"} THEN "d1" ELSE Root]

\* Values of the "Post Upload Action" setting; "archive" is not a known one.
PostUploadActions == {"rename", "delete", "move", "archive"}

-----------------------------------------------------------------------------
(* os.path.splitext *)

\* genericpath._splitext(p, sep = "/", altsep = None, extsep = "."): the
\* extension starts at the last dot of the last path component, unless that
\* component has only dots before it.
splitext(p) ==
  LET sepIndex == RFind(p, "/")
      dotIndex == RFind(p, ".")
  IN IF dotIndex > sepIndex
        /\ \E k \in (sepIndex + 1)..(dotIndex - 1) : p[k] # "."
     THEN <<SubSeq(p, 1, dotIndex - 1), SubSeq(p, dotIndex, Len(p))>>
     ELSE <<p, <<>>>>

-----------------------------------------------------------------------------
(* Store API: files().list and recursive_drive_search *)

\* drive_service.files().list(q = "'folder' in parents and trashed=false",
\* pageToken = page): one page of the folder's children and the next token
\* (0 when there is none).
FilesList(d, folder, page) ==
  LET children == SelectSeq(NodeOrder,
                    LAMBDA n : d[n].present /\ d[n].parent = folder /\ ~Trashed[n])
      last == Min(page * DrivePageSize, Len(children))
      ids == SubSeq(children, (page - 1) * DrivePageSize + 1, last)
  IN [files |-> [i \in 1..Len(ids) |->
                   [id |-> ids[i], name |-> d[ids[i]].name,
                    mimeType |-> MimeType[ids[i]]]],
      nextPageToken |-> IF last < Len(children) THEN page + 1 ELSE 0]

\* file.get('mimeType', '').startswith('video/')
IsVideo(file) == file.mimeType[1] = "video"

SearchError == [ok |-> FALSE, videos |-> <<>>]

\* A files().list request on a folder the caller may not read raises HttpError.
ListRaises(den, folder) == folder \in den

RECURSIVE SearchPages(_, _, _, _)
RECURSIVE SearchFiles(_, _, _)
RECURSIVE recursive_drive_search(_, _, _)

\* The for loop over one page (lines 377-382).
SearchFiles(d, den, files) ==
  IF files = <<>> THEN [ok |-> TRUE, videos |-> <<>>]
  ELSE LET file == Head(files)
           first == IF file.mimeType = FolderMimeType
                    THEN recursive_drive_search(d, den, file.id)
                    ELSE IF IsVideo(file)
                         THEN [ok |-> TRUE, videos |-> <<file>>]
                         ELSE [ok |-> TRUE, videos |-> <<>>]
       IN IF ~first.ok THEN SearchError
          ELSE LET rest == SearchFiles(d, den, Tail(files))
               IN IF ~rest.ok THEN SearchError
                  ELSE [ok |-> TRUE, videos |-> first.videos \o rest.videos]

\* A faulty variant of SearchPages: nextPageToken is not followed.
SearchFirstPage(d, den, folder, page) ==
  IF ListRaises(den, folder) THEN SearchError
  ELSE SearchFiles(d, den, FilesList(d, folder, page).files)

\* The while loop over the pages of one folder (lines 371-385); an exception
\* of the list request is not caught and ends the whole search.
SearchPages(d, den, folder, page) ==
  IF ListRaises(den, folder) THEN SearchError
  ELSE LET response == FilesList(d, folder, page)
           here == SearchFiles(d, den, response.files)
       IN IF ~here.ok THEN SearchError
          ELSE IF response.nextPageToken = 0 THEN here
          ELSE LET rest == SearchPages(d, den, folder, response.nextPageToken)
               IN IF ~rest.ok THEN SearchError
                  ELSE [ok |-> TRUE, videos |-> here.videos \o rest.videos]

recursive_drive_search(d, den, folder_id) == SearchPages(d, den, folder_id, 1)

-----------------------------------------------------------------------------
(* Publish API: playlistItems().list and get_youtube_videos *)

\* One page of the uploads playlist and the next token (0 when none).
PlaylistItemsList(cat, page) ==
  LET last == Min(page * PlaylistPageSize, Len(cat))
  IN [items |-> SubSeq(cat, (page - 1) * PlaylistPageSize + 1, last),
      nextPageToken |-> IF last < Len(cat) THEN page + 1 ELSE 0]

\* The while loop of get_youtube_videos (lines 346-361), from page `page`;
\* the request for page failAt raises HttpError, which the function catches,
\* returning the videos read so far (failAt = 0: no request fails).
RECURSIVE PlaylistPages(_, _, _)
PlaylistPages(cat, page, failAt) ==
  IF page = failAt THEN <<>>
  ELSE LET response == PlaylistItemsList(cat, page)
       IN IF response.nextPageToken = 0 THEN response.items
          ELSE response.items \o PlaylistPages(cat, response.nextPageToken, failAt)

NumPlaylistPages(cat) ==
  IF Len(cat) = 0 THEN 1
  ELSE (Len(cat) + PlaylistPageSize - 1) \div PlaylistPageSize

\* get_youtube_videos: channel is "found", "missing" (no items in the
\* channels().list response) or "error" (channels().list raises HttpError).
get_youtube_videos(cat, channel, failAt) ==
  IF channel = "found" THEN PlaylistPages(cat, 1, failAt) ELSE <<>>

-----------------------------------------------------------------------------
(* The diff of main (lines 563-568) *)

\* A faulty variant of the diff: the name is compared with its extension.
IsNewByFullName(video, ids) == video.name \notin ids

IsNew(video, ids) == splitext(video.name)[1] \notin ids

NewVideos(videos, ids) == SelectSeq(videos, LAMBDA video : IsNew(video, ids))


-----------------------------------------------------------------------------
(* handle_post_upload_action (lines 404-463) *)

\* Outcomes of one remote request: done, HttpError raised, or an exception of
\* another kind raised (a transport error, a malformed response).
RequestOutcomes == {"ok", "HttpError", "Error"}

Info(text, arg) == [text |-> text, arg |-> arg]

\* A faulty variant of lines 412-413: the whole original name is kept.
NewNameKeepsOriginal(vid, original_file_name) == vid \o original_file_name

\* Lines 412-413: new_name = f'{youtube_video_id}{original_extension}'.
NewName(vid, original_file_name) == vid \o splitext(original_file_name)[2]

\* A faulty variant of line 427: the request succeeds but the file stays.
DeleteKeepsFile(d, file_id) == d

\* Line 427: files().delete(fileId=file_id) removes the file from the store.
DeleteFile(d, file_id) == [d EXCEPT ![file_id].present = FALSE]

\* A faulty variant of line 436: the test is left out.
CompletedFolderAssumed(cfg) == FALSE

\* Line 436: not config.completed_folder_id.
NoCompletedFolder(cfg) == cfg.completed_folder_id = ""

\* A faulty variant of line 459: the message does not name the value.
UnknownActionUnnamed(action) == Info("Unknown action", <<>>)

\* Line 459: action_info = f"Unknown action '{action}'".
UnknownActionInfo(action) == Info("Unknown action", <<action>>)

\* The action applied to file_id after its upload as youtube_video_id; first
\* and second are the outcomes of the Store API requests it issues, in order.
\* Returns the store afterwards, the requests issued, whether an exception
\* left the function, and the returned {'action', 'info'}.
handle_post_upload_action(d, file_id, original_file_name, vid, cfg, first, second) ==
  LET action == cfg.post_upload_action
      Result(d2, calls, raised, info) ==
        [drive |-> d2, calls |-> calls, raised |-> raised,
         details |-> [action |-> action, info |-> info]]
  IN IF action = "rename" THEN
       LET new_name == NewName(vid, original_file_name)
           calls == {[op |-> "update", file |-> file_id]}
       IN IF first = "ok"
          THEN Result([d EXCEPT ![file_id].name = new_name], calls, FALSE,
                      Info("Renamed to", new_name))
          ELSE IF first = "HttpError"
          THEN Result(d, calls, FALSE, Info("Rename failed", <<>>))
          ELSE Result(d, calls, TRUE, Info("", <<>>))
     ELSE IF action = "delete" THEN
       LET calls == {[op |-> "delete", file |-> file_id]}
       IN IF first = "ok"
          THEN Result(DeleteFile(d, file_id), calls, FALSE,
                      Info("File deleted", <<>>))
          ELSE IF first = "HttpError"
          THEN Result(d, calls, FALSE, Info("Delete failed", <<>>))
          ELSE Result(d, calls, TRUE, Info("", <<>>))
     ELSE IF action = "move" THEN
       IF NoCompletedFolder(cfg)
       THEN Result(d, {}, FALSE,
                   Info("Error: Completed Folder ID is not set", <<>>))
       ELSE LET get == {[op |-> "get", file |-> file_id]}
                both == get \cup {[op |-> "update", file |-> file_id]}
            IN IF first = "HttpError"
               THEN Result(d, get, FALSE, Info("Move failed", <<>>))
               ELSE IF first = "Error"
               THEN Result(d, get, TRUE, Info("", <<>>))
               ELSE IF second = "ok"
               THEN Result([d EXCEPT ![file_id].parent = cfg.completed_folder_id],
                           both, FALSE,
                           Info("Moved to folder", <<cfg.completed_folder_id>>))
               ELSE IF second = "HttpError"
               THEN Result(d, both, FALSE, Info("Move failed", <<>>))
               ELSE Result(d, both, TRUE, Info("", <<>>))
     ELSE Result(d, {}, FALSE, UnknownActionInfo(action))

-----------------------------------------------------------------------------
(* The audit log (lines 246-317) *)

\* A faulty variant of _ensure_log_sheet_exists: the header is written
\* outside the test of line 256, also when the tab exists.
EnsureRewritesHeader(tab, cfg, get, add, header) ==
  IF cfg.spreadsheet_id = "" THEN [tab |-> tab, raised |-> FALSE]
  ELSE IF get = "HttpError" THEN [tab |-> tab, raised |-> FALSE]
  ELSE IF get = "Error" THEN [tab |-> tab, raised |-> TRUE]
  ELSE IF tab = "absent" /\ add = "HttpError" THEN [tab |-> tab, raised |-> FALSE]
  ELSE IF tab = "absent" /\ add = "Error" THEN [tab |-> tab, raised |-> TRUE]
  ELSE IF header = "ok" THEN [tab |-> "header", raised |-> FALSE]
  ELSE [tab |-> IF tab = "absent" THEN "bare" ELSE tab, raised |-> header = "Error"]

\* _ensure_log_sheet_exists: get, add and header are the outcomes of the
\* spreadsheets().get, batchUpdate(addSheet) and values().update requests.
\* Only HttpError is caught.
_ensure_log_sheet_exists(tab, cfg, get, add, header) ==
  IF cfg.spreadsheet_id = "" THEN [tab |-> tab, raised |-> FALSE]
  ELSE IF get = "HttpError" THEN [tab |-> tab, raised |-> FALSE]
  ELSE IF get = "Error" THEN [tab |-> tab, raised |-> TRUE]
  ELSE IF tab # "absent" THEN [tab |-> tab, raised |-> FALSE]
  ELSE IF add = "HttpError" THEN [tab |-> tab, raised |-> FALSE]
  ELSE IF add = "Error" THEN [tab |-> tab, raised |-> TRUE]
  ELSE IF header = "ok" THEN [tab |-> "header", raised |-> FALSE]
  ELSE IF header = "HttpError" THEN [tab |-> "bare", raised |-> FALSE]
  ELSE [tab |-> "bare", raised |-> TRUE]

\* A faulty variant of AppendEscapes: the except clause names HttpError only.
AppendEscapesUnlessHttp(append) == append = "Error"

\* The except clause of _append_log_entry (line 300) names Exception: the
\* outcomes of the values().append request that it lets through.
AppendEscapes(append) == append \notin {"ok", "HttpError", "Error"}

\* A faulty variant of _append_log_entry: the request is sent a second time
\* after it succeeded.
AppendLogEntryTwice(tab, rows, log_entry, append) ==
  IF append = "ok" /\ tab # "absent"
  THEN Append(Append(rows, log_entry), log_entry)
  ELSE rows

\* _append_log_entry: the values().append request on range Logs!A1 adds the
\* row when it succeeds, which needs the tab to exist; every exception is
\* caught.
_append_log_entry(tab, rows, log_entry, append) ==
  IF append = "ok" /\ tab # "absent" THEN Append(rows, log_entry) ELSE rows

_log_upload_to_sheet(tab, rows, cfg, video_details, get, add, header, append) ==
  IF cfg.spreadsheet_id = "" THEN [tab |-> tab, rows |-> rows, raised |-> FALSE]
  ELSE LET ensured == _ensure_log_sheet_exists(tab, cfg, get, add, header)
           log_entry == [file_name |-> video_details.file_name,
                         file_id |-> video_details.file_id,
                         youtube_video_id |-> video_details.youtube_video_id,
                         action |-> video_details.action_details.action,
                         info |-> video_details.action_details.info]
       IN IF ensured.raised
          THEN [tab |-> ensured.tab, rows |-> rows, raised |-> TRUE]
          ELSE [tab |-> ensured.tab,
                rows |-> _append_log_entry(ensured.tab, rows, log_entry, append),
                raised |-> AppendEscapes(append)]

-----------------------------------------------------------------------------
(* _resumable_upload (lines 478-515): the decisions of the retry loop *)

\* The statuses an HttpError of next_chunk carries in the runs explored: one
\* of RETRIABLE_STATUS_CODES and one outside it.
HttpStatuses == {503, 404}

\* The exception next_chunk raised: none yet, an HttpError with e.resp.status,
\* or an exception that is not an HttpError (a transport error).
NoError == [type |-> "", status |-> 0]
HttpError(status) == [type |-> "HttpError", status |-> status]
TransportError == [type |-> "Error", status |-> 0]

\* A faulty variant of line 499: every HttpError is taken for retriable.
RetriableAlways(status) == status \in RETRIABLE_STATUS_CODES \cup HttpStatuses

\* Line 499: e.resp.status in RETRIABLE_STATUS_CODES.
Retriable(status) == status \in RETRIABLE_STATUS_CODES

\* A faulty variant of line 504: off by one.
RetriesExceededEarly(n) == n >= MAX_RETRIES

RetriesExceeded(n) == n > MAX_RETRIES

\* A faulty variant of line 511: 2 * retry instead of 2 ** retry.
SleepTimeLinear(n, jitter) == JitterSteps * (2 * n) + jitter

\* sleep_time = 2**retry + random.random(), in units of 1/JitterSteps second,
\* jitter in 0..JitterSteps-1.
SleepTime(n, jitter) == JitterSteps * Pow2(n) + jitter

Jitters == 0..(JitterSteps - 1)

-----------------------------------------------------------------------------
(* resumable_upload of the command-line scripts (src/cli/main.py lines
   218-251, src/main.py lines 192-225): the same loop in both files *)

Scripts == {"src/cli/main.py", "src/main.py"}

\* src/cli/main.py lines 60-62.  src/main.py uses HttpError,
\* RETRIABLE_STATUS_CODES, RETRIABLE_EXCEPTIONS, MAX_RETRIES and random
\* without importing or defining any of them: there, evaluating the clause
\* 'except HttpError' while an exception propagates raises NameError.
NamesDefined(script) == script = "src/cli/main.py"
CLI_MAX_RETRIES == 10
CLI_RETRIABLE_STATUS_CODES == {500, 502, 503, 504}

\* A faulty variant of lines 248-249: the random part is added to 2**retry.
CliSleepSecondsAdded(n, jitter) == JitterSteps * Pow2(n) + jitter

\* Lines 248-249: sleep_seconds = random.random() * 2**retry, in units of 1/JitterSteps
\* second: random.random() is jitter/JitterSteps.
CliSleepSeconds(n, jitter) == jitter * Pow2(n)

\* The session of a script that is not running.
NoCli ==
  [script |-> "", pc |-> "idle", retry |-> 0, error |-> FALSE, sleep_seconds |-> 0,
   calls |-> 0, sleeps |-> 0, progressed |-> 0, raised |-> ""]

\* main of a script that is not running.  rows is the number of rows read
\* from the upload list, row the index of the row in hand, written the
\* column of links of the sheet, updates the number of values().update
\* requests sent, moved the rows whose file is in the completed folder.
NoCliMain ==
  [script |-> "", pc |-> "idle", rows |-> 0, row |-> 0, values_for_sheet |-> <<>>,
   written |-> <<>>, updates |-> 0, moved |-> {}, raised |-> ""]

\* The locals of resumable_upload on entry: response, error = None, retry = 0.
CliEntry(script) == [NoCli EXCEPT !.script = script, !.pc = "upload"]

\* An exception leaves resumable_upload.
CliRaised(c, exception) == [c EXCEPT !.pc = "raised", !.raised = exception]

\* The end of one turn of the loop, 'if error is not None': error is set by
\* a retriable failure and never cleared, so from then on every turn that
\* stays in the loop counts, and sleeps unless the count exceeds MAX_RETRIES.
CliBackoff(c) ==
  IF ~c.error THEN {c}
  ELSE LET n == c.retry + 1
       IN IF n > CLI_MAX_RETRIES
          THEN {CliRaised([c EXCEPT !.retry = n], "SystemExit")}
          ELSE {[c EXCEPT !.retry = n, !.sleeps = @ + 1,
                          !.sleep_seconds = CliSleepSeconds(n, jitter)] :
                  jitter \in Jitters}


-----------------------------------------------------------------------------
(* Metadata resolution of main (lines 592-622).  A dict is a record of its
   set of keys and of the values of the keys it can have; strings are
   sequences of characters. *)

Lower == [c \in {"T", "R", "U", "E", "F", "A", "L", "S"} |->
            CASE c = "T" -> "t" [] c = "R" -> "r" [] c = "U" -> "u" [] c = "E" -> "e"
              [] c = "F" -> "f" [] c = "A" -> "a" [] c = "L" -> "l" [] c = "S" -> "s"]

\* str.upper
Upper(str) ==
  [i \in 1..Len(str) |->
     IF \E c \in DOMAIN Lower : Lower[c] = str[i]
     THEN CHOOSE c \in DOMAIN Lower : Lower[c] = str[i]
     ELSE str[i]]

\* A faulty variant of MadeForKidsDefault: a missing property counts as TRUE.
MadeForKidsDefaultTrue == <<"T", "R", "U", "E">>

\* The default of .get('madeForKids', 'FALSE') (lines 609-610).
MadeForKidsDefault == <<"F", "A", "L", "S", "E">>

NoProperties == [keys |-> {}, madeForKids |-> <<>>]

\* video.get('properties', {})
Properties(v) == IF "properties" \in v.keys THEN v.properties ELSE NoProperties

\* Lines 609-610.
made_for_kids(v) ==
  LET properties == Properties(v)
      value == IF "madeForKids" \in properties.keys THEN properties.madeForKids
               ELSE MadeForKidsDefault
  IN Upper(value) = <<"T", "R", "U", "E">>

\* Line 594: video.get('description') or config.default_video_description.
description(v, default_video_description) ==
  LET own == IF "description" \in v.keys THEN v.description ELSE <<>>
  IN IF own # <<>> THEN own ELSE default_video_description

\* Lines 612-622: the body of the insert request; the tags are those of line
\* 596, the keys of the properties (fetch_labels is off).
Body(v, default_video_description) ==
  [snippet |-> [title |-> splitext(v.name)[1],
                description |-> description(v, default_video_description),
                tags |-> Properties(v).keys],
   status |-> [privacyStatus |-> "unlisted",
               selfDeclaredMadeForKids |-> made_for_kids(v)]]

NoBody ==
  [snippet |-> [title |-> <<>>, description |-> <<>>, tags |-> {}],
   status |-> [privacyStatus |-> "", selfDeclaredMadeForKids |-> FALSE]]

NoMetadata ==
  [pc |-> "idle",
   video |-> [name |-> <<>>, keys |-> {}, description |-> <<>>,
              properties |-> NoProperties],
   default_video_description |-> <<>>,
   body |-> NoBody]

-----------------------------------------------------------------------------
(* Initial states: the request's configuration, the store, the channel and
   the spreadsheet as main() finds them *)

Configs ==
  { [drive_root_folder_id |-> Root, post_upload_action |-> a,
     completed_folder_id |-> c, spreadsheet_id |-> s] :
      a \in PostUploadActions, c \in {"", CompletedFolder}, s \in {"", "sheet"} }

\* completed_folder_id is read by the "move" action only, and nothing is read
\* when the root folder is not set: the other combinations are left out.
InitConfigs ==
  { c \in Configs : c.post_upload_action # "move" => c.completed_folder_id = "" }
  \cup { [drive_root_folder_id |-> "", post_upload_action |-> "rename",
          completed_folder_id |-> "", spreadsheet_id |-> "sheet"] }

\* The names of the three video files f1, f2, f3: with an extension, without
\* one, with a leading dot only, with two dots, with a trailing dot.
StoreNames ==
  { [f1 |-> <<"a", ".", "m">>, f2 |-> <<"b", ".", "m">>, f3 |-> <<"b">>],
    [f1 |-> <<".", "a">>, f2 |-> <<"c", ".", "b", ".", "m">>, f3 |-> <<"b", ".">>] }

NodeName(names, n) == IF n \in Videos THEN names[n] ELSE <<n>>

NoOutcome ==
  [kind |-> "running", error |-> "", result |-> "", status |-> 0, uploaded |-> <<>>]

NoDetails == [action |-> "", info |-> Info("", <<>>)]

Init ==
  /\ config \in InitConfigs
  /\ \E names \in StoreNames :
       drive = [n \in Nodes |->
                  [name |-> NodeName(names, n), parent |-> Parent0[n], present |-> TRUE]]
  /\ denied \in SUBSET {"d1"}
  /\ catalog \in Catalogs
  /\ issued = 0
  /\ sheetTab \in (IF config.spreadsheet_id = "" THEN {"absent"} ELSE {"absent", "header"})
  /\ logRows = <<>>
  /\ localFiles = {}
  /\ pc = "start"
  /\ youtube_video_ids = {}
  /\ drive_videos = <<>>
  /\ videos_to_upload = <<>>
  /\ idx = 0
  /\ retry = 0
  /\ sleep_time = 0
  /\ chunkCalls = 0
  /\ sleeps = 0
  /\ progressed = 0
  /\ youtube_video_id = <<>>
  /\ action_details = NoDetails
  /\ outcome = NoOutcome
  /\ downloads = <<>>
  /\ uploads = <<>>
  /\ failed = {}
  /\ postCalls = <<>>
  /\ storeCalls = {}
  /\ last_error = NoError
  /\ cli = NoCli
  /\ cancelled = FALSE
  /\ cliMain = NoCliMain
  /\ metadata = NoMetadata

-----------------------------------------------------------------------------
(* main (lines 519-665) *)

storeVars == <<drive, denied, storeCalls>>
sheetVars == <<sheetTab, logRows>>
scanVars == <<youtube_video_ids, drive_videos, videos_to_upload>>
sessionVars == <<retry, sleep_time, chunkCalls, sleeps, progressed, last_error>>
traceVars == <<downloads, uploads, failed, postCalls>>

\* An exception leaves main.
Raised(error) ==
  [kind |-> "raised", error |-> error, result |-> "", status |-> 0, uploaded |-> <<>>]

\* main returns (result, 200).
Returned(result, uploaded) ==
  [kind |-> "returned", error |-> "", result |-> result, status |-> 200,
   uploaded |-> uploaded]

\* A faulty variant of video: every pass of the loop takes the first item.
video_first == videos_to_upload[1]

\* The loop variable of `for video in videos_to_upload` (line 582).
video == videos_to_upload[idx]

\* A faulty variant of RootFolderUnset: the setting is not looked at.
RootFolderUnchecked(cfg) == FALSE

\* `not config.drive_root_folder_id` (line 539).
RootFolderUnset(cfg) == cfg.drive_root_folder_id = ""

\* Lines 519-540: without a root folder id main raises ValueError.
Start ==
  /\ pc = "start"
  /\ IF RootFolderUnset(config)
     THEN pc' = "raised" /\ outcome' = Raised("ValueError")
     ELSE pc' = "catalog" /\ outcome' = outcome
  /\ UNCHANGED <<cliMain, metadata, cancelled, cli, config, catalog, issued, localFiles, idx, youtube_video_id,
                 action_details, storeVars, sheetVars, scanVars, sessionVars,
                 traceVars>>

\* Lines 548-553: get_youtube_videos returns what it read before an HttpError.
FetchCatalog ==
  /\ pc = "catalog"
  /\ \E channel \in {"found", "missing", "error"},
        failAt \in 0..NumPlaylistPages(catalog) :
       youtube_video_ids' = Range(get_youtube_videos(catalog, channel, failAt))
  /\ pc' = "scan"
  /\ UNCHANGED <<cliMain, metadata, cancelled, cli, config, catalog, issued, localFiles, idx, youtube_video_id,
                 action_details, outcome, storeVars, sheetVars, drive_videos,
                 videos_to_upload, sessionVars, traceVars>>

\* An exception other than HttpError leaves get_youtube_videos and main.
FetchCatalogRaises ==
  /\ pc = "catalog"
  /\ pc' = "raised"
  /\ outcome' = Raised("Error")
  /\ UNCHANGED <<cliMain, metadata, cancelled, cli, config, catalog, issued, localFiles, idx, youtube_video_id,
                 action_details, storeVars, sheetVars, scanVars, sessionVars,
                 traceVars>>

\* Lines 555-560: the scan of the store; an exception of a list request
\* leaves main.
ScanDrive ==
  /\ pc = "scan"
  /\ LET found == recursive_drive_search(drive, denied, config.drive_root_folder_id)
     IN IF found.ok
        THEN /\ drive_videos' = found.videos
             /\ pc' = "diff"
             /\ outcome' = outcome
        ELSE /\ drive_videos' = drive_videos
             /\ pc' = "raised"
             /\ outcome' = Raised("HttpError")
  /\ UNCHANGED <<cliMain, metadata, cancelled, cli, config, catalog, issued, localFiles, idx, youtube_video_id,
                 action_details, storeVars, sheetVars, youtube_video_ids,
                 videos_to_upload, sessionVars, traceVars>>

\* A faulty variant of NoNewVideos: the work list is not tested.
NoNewVideosUntested(work) == FALSE

\* `not videos_to_upload` (line 570).
NoNewVideos(work) == work = <<>>

\* Lines 563-579: the work list; an empty one ends the run.  The for loop of
\* line 582 has no pass on an empty list and leads to the return of line 659.
Diff ==
  /\ pc = "diff"
  /\ videos_to_upload' = NewVideos(drive_videos, youtube_video_ids)
  /\ IF NoNewVideos(videos_to_upload')
     THEN /\ pc' = "returned"
          /\ outcome' = Returned("No new videos to upload", <<>>)
          /\ idx' = idx
     ELSE IF videos_to_upload' = <<>>
     THEN /\ pc' = "returned"
          /\ outcome' = Returned("All new videos have been processed", <<>>)
          /\ idx' = idx
     ELSE /\ pc' = "download"
          /\ outcome' = outcome
          /\ idx' = 1
  /\ UNCHANGED <<cliMain, metadata, cancelled, cli, config, catalog, issued, localFiles, youtube_video_id,
                 action_details, storeVars, sheetVars, youtube_video_ids,
                 drive_videos, sessionVars, traceVars>>


\* The for loop of line 582 moves to the next item of the work list, or main
\* returns the result (lines 658-665).
Advance ==
  IF idx < Len(videos_to_upload)
  THEN /\ idx' = idx + 1
       /\ pc' = "download"
       /\ outcome' = outcome
  ELSE /\ idx' = idx
       /\ pc' = "returned"
       /\ outcome' = Returned("All new videos have been processed", videos_to_upload)

\* A faulty variant of the failure path: the exception is swallowed and the
\* loop goes on with the next item.
ItemFailureSkipsItem == "cleanup"

\* A faulty variant of the failure path: the exception is swallowed and main
\* falls through to the post-upload action.
ItemFailureFallsThrough == "action"

\* Neither download_file_from_drive (line 590) nor _resumable_upload
\* (line 630) is called inside a try: their exceptions leave main.
ItemFailurePc == "raised"

\* Lines 582-590, download completes.
DownloadDone ==
  /\ pc = "download"
  /\ downloads' = Append(downloads, video.id)
  /\ localFiles' = localFiles \cup {video.name}
  /\ pc' = "upload"
  /\ retry' = 0
  /\ sleep_time' = 0
  /\ chunkCalls' = 0
  /\ sleeps' = 0
  /\ progressed' = 0
  /\ last_error' = NoError
  /\ UNCHANGED <<cliMain, metadata, cancelled, cli, config, catalog, issued, idx, youtube_video_id, action_details,
                 outcome, storeVars, sheetVars, scanVars, uploads, failed,
                 postCalls>>

\* Lines 466-475: a chunk of the download raises; the local file was already
\* opened for writing.
DownloadFails ==
  /\ pc = "download"
  /\ downloads' = Append(downloads, video.id)
  /\ localFiles' = localFiles \cup {video.name}
  /\ failed' = failed \cup {video.id}
  /\ pc' = ItemFailurePc
  /\ outcome' = IF pc' = "raised" THEN Raised("HttpError") ELSE outcome
  /\ UNCHANGED <<cliMain, metadata, cancelled, cli, config, catalog, issued, idx, youtube_video_id, action_details,
                 storeVars, sheetVars, scanVars, sessionVars, uploads, postCalls>>

\* An exception leaves _resumable_upload, hence main.
UploadRaises(error) ==
  /\ failed' = failed \cup {video.id}
  /\ pc' = ItemFailurePc
  /\ outcome' = IF pc' = "raised" THEN Raised(error) ELSE outcome

\* A faulty variant of ChunkProgress: a chunk that goes through resets the
\* retry counter.
ChunkProgressResetsRetry ==
  /\ pc = "upload"
  /\ progressed < MaxProgress
  /\ progressed' = progressed + 1
  /\ chunkCalls' = chunkCalls + 1
  /\ retry' = 0
  /\ sleeps' = 0
  /\ UNCHANGED <<cliMain, metadata, cancelled, cli, config, catalog, issued, localFiles, pc, idx,
                 youtube_video_id, action_details, outcome, storeVars, sheetVars,
                 scanVars, sleep_time, last_error, traceVars>>

\* Line 485: next_chunk returns (status, None).
ChunkProgress ==
  /\ pc = "upload"
  /\ progressed < MaxProgress
  /\ progressed' = progressed + 1
  /\ chunkCalls' = chunkCalls + 1
  /\ UNCHANGED <<cliMain, metadata, cancelled, cli, config, catalog, issued, localFiles, pc, idx, youtube_video_id,
                 action_details, outcome, storeVars, sheetVars, scanVars, retry,
                 sleep_time, sleeps, last_error, traceVars>>

\* A faulty variant of the check of line 631: the test for 'id' is inverted.
UploadFailedInverted(response) == response.keys = {} \/ "id" \in response.keys

\* Line 631: not upload_response or 'id' not in upload_response.  A response
\* is modelled by its set of keys and the value of its 'id'.
UploadFailed(response) == response.keys = {} \/ "id" \notin response.keys

\* Lines 486-490 and 630-639: next_chunk returns a response with an 'id' (the
\* video is on the channel) and _resumable_upload returns it to main.
ChunkUploaded ==
  /\ pc = "upload"
  /\ issued < Len(FreshIds)
  /\ LET id == FreshIds[issued + 1]
         upload_response == [keys |-> {"id"}, id |-> id]
     IN /\ catalog' = <<id>> \o catalog
        /\ uploads' = Append(uploads, [file |-> video.id, vid |-> id])
        /\ IF UploadFailed(upload_response)
           THEN /\ youtube_video_id' = youtube_video_id
                /\ Advance
           ELSE /\ youtube_video_id' = upload_response.id
                /\ pc' = "action"
                /\ UNCHANGED <<idx, outcome>>
  /\ issued' = issued + 1
  /\ retry' = 0
  /\ sleep_time' = 0
  /\ chunkCalls' = 0
  /\ sleeps' = 0
  /\ progressed' = 0
  /\ last_error' = NoError
  /\ UNCHANGED <<cliMain, metadata, cancelled, cli, config, localFiles, action_details, storeVars, sheetVars,
                 scanVars, downloads, failed, postCalls>>

\* Lines 491-495: a terminal response without 'id' raises UploadError, which
\* the except clause for HttpError does not catch.
ChunkNoId ==
  /\ pc = "upload"
  /\ chunkCalls' = chunkCalls + 1
  /\ UploadRaises("UploadError")
  /\ UNCHANGED <<cliMain, metadata, cancelled, cli, last_error, config, catalog, issued, localFiles, idx, youtube_video_id,
                 action_details, storeVars, sheetVars, scanVars, retry, sleep_time,
                 sleeps, progressed, downloads, uploads, postCalls>>

\* Lines 496-501: HttpError with a status that is not retriable is re-raised.
ChunkFatalError ==
  /\ pc = "upload"
  /\ \E status \in HttpStatuses :
       /\ ~Retriable(status)
       /\ last_error' = HttpError(status)
  /\ chunkCalls' = chunkCalls + 1
  /\ UploadRaises("HttpError")
  /\ UNCHANGED <<cliMain, metadata, cancelled, cli, config, catalog, issued, localFiles, idx, youtube_video_id,
                 action_details, storeVars, sheetVars, scanVars, retry, sleep_time,
                 sleeps, progressed, downloads, uploads, postCalls>>

\* Lines 503-515: HttpError with a retriable status: count it, give up after
\* MAX_RETRIES, otherwise sleep and call next_chunk again.
ChunkRetriableError ==
  /\ pc = "upload"
  /\ \E status \in HttpStatuses :
       /\ Retriable(status)
       /\ last_error' = HttpError(status)
  /\ chunkCalls' = chunkCalls + 1
  /\ retry' = retry + 1
  /\ IF RetriesExceeded(retry')
     THEN /\ UploadRaises("MaxRetriesExceededError")
          /\ UNCHANGED <<sleep_time, sleeps>>
     ELSE /\ \E jitter \in Jitters : sleep_time' = SleepTime(retry', jitter)
          /\ sleeps' = sleeps + 1
          /\ UNCHANGED <<pc, outcome, failed>>
  /\ UNCHANGED <<cliMain, metadata, cancelled, cli, config, catalog, issued, localFiles, idx, youtube_video_id,
                 action_details, storeVars, sheetVars, scanVars, progressed,
                 downloads, uploads, postCalls>>

\* next_chunk raises an exception that is not an HttpError (a transport
\* error): no except clause matches.
ChunkOtherError ==
  /\ pc = "upload"
  /\ last_error' = TransportError
  /\ chunkCalls' = chunkCalls + 1
  /\ UploadRaises("Error")
  /\ UNCHANGED <<cliMain, metadata, cancelled, cli, config, catalog, issued, localFiles, idx, youtube_video_id,
                 action_details, storeVars, sheetVars, scanVars, retry, sleep_time,
                 sleeps, progressed, downloads, uploads, postCalls>>

\* Lines 641-644: the post-upload action.
PostAction ==
  /\ pc = "action"
  /\ \E first \in RequestOutcomes, second \in RequestOutcomes :
       LET done == handle_post_upload_action(drive, video.id, video.name,
                                             youtube_video_id, config, first, second)
       IN /\ drive' = done.drive
          /\ storeCalls' = storeCalls \cup done.calls
          /\ IF done.raised
             THEN /\ pc' = "raised"
                  /\ outcome' = Raised("Error")
                  /\ action_details' = action_details
             ELSE /\ pc' = "audit"
                  /\ outcome' = outcome
                  /\ action_details' = done.details
  /\ postCalls' = Append(postCalls, [file |-> video.id, vid |-> youtube_video_id])
  /\ UNCHANGED <<cliMain, metadata, cancelled, cli, config, denied, catalog, issued, localFiles, idx,
                 youtube_video_id, sheetVars, scanVars, sessionVars, downloads,
                 uploads, failed>>

\* Lines 646-653: the audit row.
LogUpload ==
  /\ pc = "audit"
  /\ \E get \in RequestOutcomes, add \in RequestOutcomes,
        header \in RequestOutcomes, append \in RequestOutcomes :
       LET logged == _log_upload_to_sheet(sheetTab, logRows, config,
                       [file_name |-> video.name, file_id |-> video.id,
                        youtube_video_id |-> youtube_video_id,
                        action_details |-> action_details],
                       get, add, header, append)
       IN /\ sheetTab' = logged.tab
          /\ logRows' = logged.rows
          /\ IF logged.raised
             THEN pc' = "raised" /\ outcome' = Raised("Error")
             ELSE pc' = "cleanup" /\ outcome' = outcome
  /\ UNCHANGED <<cliMain, metadata, cancelled, cli, config, catalog, issued, localFiles, idx, youtube_video_id,
                 action_details, storeVars, scanVars, sessionVars, traceVars>>

\* A faulty variant of Cleanup: the local file is not removed.
CleanupKeepsFile ==
  /\ pc = "cleanup"
  /\ youtube_video_id' = <<>>
  /\ action_details' = NoDetails
  /\ Advance
  /\ UNCHANGED <<cliMain, metadata, cancelled, cli, config, catalog, issued, localFiles,
                 storeVars, sheetVars, scanVars, sessionVars, traceVars>>

\* Lines 655-665: remove the local file; next item, or return the result.
Cleanup ==
  /\ pc = "cleanup"
  /\ localFiles' = localFiles \ {video.name}
  /\ youtube_video_id' = <<>>
  /\ action_details' = NoDetails
  /\ Advance
  /\ UNCHANGED <<cliMain, metadata, cancelled, cli, config, catalog, issued, storeVars, sheetVars, scanVars,
                 sessionVars, traceVars>>

Next ==
  \/ Start
  \/ FetchCatalog
  \/ FetchCatalogRaises
  \/ ScanDrive
  \/ Diff
  \/ DownloadDone
  \/ DownloadFails
  \/ ChunkProgress
  \/ ChunkUploaded
  \/ ChunkNoId
  \/ ChunkFatalError
  \/ ChunkRetriableError
  \/ ChunkOtherError
  \/ PostAction
  \/ LogUpload
  \/ Cleanup

Spec == Init /\ [][Next]_vars

-----------------------------------------------------------------------------
(* resumable_upload of the command-line scripts, one action per result of
   request.next_chunk() (src/cli/main.py lines 218-251) *)

mainVarsButCancelled ==
  <<config, drive, denied, catalog, issued, sheetTab, logRows, localFiles,
    pc, youtube_video_ids, drive_videos, videos_to_upload, idx, retry,
    sleep_time, chunkCalls, sleeps, progressed, youtube_video_id,
    action_details, outcome, downloads, uploads, failed, postCalls,
    storeCalls, last_error>>

mainVars == <<mainVarsButCancelled, cancelled, metadata, cliMain>>

\* The locals after the call of next_chunk.
CliCalled == [cli EXCEPT !.calls = @ + 1]

\* An exception propagates out of the try body: the except clauses are
\* evaluated, which needs the name HttpError.
CliPropagates(exception) ==
  cli' = CliRaised(CliCalled, IF NamesDefined(cli.script) THEN exception
                              ELSE "NameError")

\* Line 225: next_chunk returns (status, None); the loop goes on.
CliChunkProgress ==
  /\ cli.pc = "upload"
  /\ cli.progressed < MaxProgress
  /\ cli' \in CliBackoff([CliCalled EXCEPT !.progressed = @ + 1])
  /\ UNCHANGED mainVars

\* Lines 226-231: a response with an 'id': the link of the video is returned.
CliChunkUploaded ==
  /\ cli.pc = "upload"
  /\ cli' = [CliCalled EXCEPT !.pc = "returned"]
  /\ UNCHANGED mainVars

\* Lines 232-233: a response without 'id': exit() raises SystemExit inside
\* the try body.
CliChunkNoId ==
  /\ cli.pc = "upload"
  /\ CliPropagates("SystemExit")
  /\ UNCHANGED mainVars

\* Lines 234-238 and 242-251: next_chunk raises HttpError; a retriable
\* status sets error, any other status is re-raised.
CliChunkHttpError ==
  /\ cli.pc = "upload"
  /\ \E status \in HttpStatuses :
       IF NamesDefined(cli.script) /\ status \in CLI_RETRIABLE_STATUS_CODES
       THEN cli' \in CliBackoff([CliCalled EXCEPT !.error = TRUE])
       ELSE CliPropagates("HttpError")
  /\ UNCHANGED mainVars

\* Lines 239-240: RETRIABLE_EXCEPTIONS is (HttpError,), so an exception that
\* is not an HttpError (a transport error) matches no except clause.
CliChunkOtherError ==
  /\ cli.pc = "upload"
  /\ CliPropagates("Error")
  /\ UNCHANGED mainVars

\* One upload session of each upload loop of the repository: _resumable_upload
\* as main() of the cloud function enters it for the first item of its work
\* list, and resumable_upload of either script on entry.
UploadInit ==
  /\ config = [drive_root_folder_id |-> Root, post_upload_action |-> "rename",
               completed_folder_id |-> "", spreadsheet_id |-> ""]
  /\ drive = [n \in Nodes |->
                [name |-> NodeName(CHOOSE names \in StoreNames : names.f3 = <<"b">>, n),
                 parent |-> Parent0[n], present |-> TRUE]]
  /\ denied = {}
  /\ catalog = <<>>
  /\ issued = 0
  /\ sheetTab = "absent"
  /\ logRows = <<>>
  /\ youtube_video_ids = {}
  /\ retry = 0
  /\ sleep_time = 0
  /\ chunkCalls = 0
  /\ sleeps = 0
  /\ progressed = 0
  /\ last_error = NoError
  /\ youtube_video_id = <<>>
  /\ action_details = NoDetails
  /\ outcome = NoOutcome
  /\ uploads = <<>>
  /\ failed = {}
  /\ postCalls = <<>>
  /\ storeCalls = {}
  /\ cancelled = FALSE
  /\ cliMain = NoCliMain
  /\ metadata = NoMetadata
  /\ \/ /\ cli = NoCli
        /\ drive_videos = recursive_drive_search(drive, denied, Root).videos
        /\ videos_to_upload = NewVideos(drive_videos, youtube_video_ids)
        /\ idx = 1
        /\ downloads = <<video.id>>
        /\ localFiles = {video.name}
        /\ pc = "upload"
     \/ /\ cli \in {CliEntry(script) : script \in Scripts}
        /\ drive_videos = <<>>
        /\ videos_to_upload = <<>>
        /\ idx = 0
        /\ downloads = <<>>
        /\ localFiles = {}
        /\ pc = "start"

UploadNext ==
  \/ ChunkProgress
  \/ ChunkUploaded
  \/ ChunkNoId
  \/ ChunkFatalError
  \/ ChunkRetriableError
  \/ ChunkOtherError
  \/ CliChunkProgress
  \/ CliChunkUploaded
  \/ CliChunkNoId
  \/ CliChunkHttpError
  \/ CliChunkOtherError

SpecUpload == UploadInit /\ [][UploadNext]_vars

-----------------------------------------------------------------------------
(* recursive_drive_search (lines 367-386) on the folder trees that can be
   made of the nodes: every file is in the root or in one of the two folders,
   and a folder is in the root or in the other folder. *)

Folders == {n \in Nodes : MimeType[n] = FolderMimeType}

FolderTrees ==
  {p \in [Nodes -> {Root} \cup Folders] :
     /\ \A n \in Folders : p[n] # n
     /\ \E n \in Folders : p[n] = Root}

SearchInit ==
  /\ config = [drive_root_folder_id |-> Root, post_upload_action |-> "rename",
               completed_folder_id |-> "", spreadsheet_id |-> ""]
  /\ \E p \in FolderTrees :
       drive = [n \in Nodes |->
                  [name |-> NodeName(CHOOSE names \in StoreNames : names.f3 = <<"b">>, n),
                   parent |-> p[n], present |-> TRUE]]
  /\ denied \in SUBSET Folders
  /\ catalog = <<>>
  /\ issued = 0
  /\ sheetTab = "absent"
  /\ logRows = <<>>
  /\ localFiles = {}
  /\ pc = "scan"
  /\ youtube_video_ids = {}
  /\ drive_videos = <<>>
  /\ videos_to_upload = <<>>
  /\ idx = 0
  /\ retry = 0
  /\ sleep_time = 0
  /\ chunkCalls = 0
  /\ sleeps = 0
  /\ progressed = 0
  /\ last_error = NoError
  /\ youtube_video_id = <<>>
  /\ action_details = NoDetails
  /\ outcome = NoOutcome
  /\ downloads = <<>>
  /\ uploads = <<>>
  /\ failed = {}
  /\ postCalls = <<>>
  /\ storeCalls = {}
  /\ cli = NoCli
  /\ cancelled = FALSE
  /\ cliMain = NoCliMain
  /\ metadata = NoMetadata

SearchNext == ScanDrive

SpecSearch == SearchInit /\ [][SearchNext]_vars

-----------------------------------------------------------------------------
(* Metadata resolution (lines 592-622) on the listing entries a file can
   have: with or without a description, with or without properties, the
   'madeForKids' property in several spellings. *)

MadeForKidsValues ==
  { <<"T", "R", "U", "E">>, <<"t", "r", "u", "e">>, <<"T", "r", "u", "e">>,
    <<"F", "A", "L", "S", "E">>, <<"f", "a", "l", "s", "e">>, <<>>,
    <<"T", "R", "U", "E", "S">>, <<"t", "r", "u">> }

PropertyMaps ==
  { [keys |-> k, madeForKids |-> m] :
      k \in SUBSET {"madeForKids", "topic"}, m \in MadeForKidsValues }

ListingEntries ==
  { v \in [name : {<<"a", ".", "m">>},
           keys : SUBSET {"description", "properties"},
           description : {<<>>, <<"d">>},
           properties : PropertyMaps] :
      /\ "description" \notin v.keys => v.description = <<>>
      /\ "properties" \notin v.keys => v.properties = NoProperties
      /\ "madeForKids" \notin v.properties.keys => v.properties.madeForKids = <<>> }

MetadataInit ==
  /\ config = [drive_root_folder_id |-> Root, post_upload_action |-> "rename",
               completed_folder_id |-> "", spreadsheet_id |-> ""]
  /\ drive = [n \in Nodes |->
                [name |-> NodeName(CHOOSE names \in StoreNames : names.f3 = <<"b">>, n),
                 parent |-> Parent0[n], present |-> TRUE]]
  /\ denied = {}
  /\ catalog = <<>>
  /\ issued = 0
  /\ sheetTab = "absent"
  /\ logRows = <<>>
  /\ localFiles = {}
  /\ pc = "start"
  /\ youtube_video_ids = {}
  /\ drive_videos = <<>>
  /\ videos_to_upload = <<>>
  /\ idx = 0
  /\ retry = 0
  /\ sleep_time = 0
  /\ chunkCalls = 0
  /\ sleeps = 0
  /\ progressed = 0
  /\ last_error = NoError
  /\ youtube_video_id = <<>>
  /\ action_details = NoDetails
  /\ outcome = NoOutcome
  /\ downloads = <<>>
  /\ uploads = <<>>
  /\ failed = {}
  /\ postCalls = <<>>
  /\ storeCalls = {}
  /\ cli = NoCli
  /\ cancelled = FALSE
  /\ cliMain = NoCliMain
  /\ \E v \in ListingEntries, d \in {<<>>, <<"t">>} :
       metadata = [NoMetadata EXCEPT !.pc = "resolve", !.video = v,
                                     !.default_video_description = d]

\* Lines 592-622.
ResolveMetadata ==
  /\ metadata.pc = "resolve"
  /\ metadata' = [metadata EXCEPT
                    !.pc = "resolved",
                    !.body = Body(metadata.video, metadata.default_video_description)]
  /\ UNCHANGED <<cli, cliMain, cancelled, mainVarsButCancelled>>

MetadataNext == ResolveMetadata

SpecMetadata == MetadataInit /\ [][MetadataNext]_vars

-----------------------------------------------------------------------------
(* main of the command-line scripts (src/cli/main.py lines 115-199, src/main.py
   lines 91-174): the loop over the rows of the upload list, then the one
   update of the column of links. *)

\* Line 231: the link resumable_upload returns for the video of a row.
VideoLink(row) == <<"watch?v=">> \o FreshIds[row]

CliMainEntry(script, n) ==
  [NoCliMain EXCEPT !.script = script, !.pc = "download", !.rows = n, !.row = 1]

\* An exception leaves main.
CliMainRaised(m, exception) == [m EXCEPT !.pc = "raised", !.raised = exception]

\* Line 124: the download of the row's file completes; lines 126-174: the
\* insert request is built and resumable_upload is entered.
CliDownloadDone ==
  /\ cliMain.pc = "download"
  /\ cliMain' = [cliMain EXCEPT !.pc = "upload"]
  /\ cli' = CliEntry(cliMain.script)
  /\ UNCHANGED <<metadata, cancelled, mainVarsButCancelled>>

\* Line 124: a chunk of the download raises.
CliDownloadFails ==
  /\ cliMain.pc = "download"
  /\ cliMain' = CliMainRaised(cliMain, "HttpError")
  /\ UNCHANGED <<cli, metadata, cancelled, mainVarsButCancelled>>

\* Lines 174-175: resumable_upload returned the link; it is appended.
CliUploadReturns ==
  /\ cliMain.pc = "upload"
  /\ cli.pc = "returned"
  /\ cliMain' = [cliMain EXCEPT
                   !.pc = "move",
                   !.values_for_sheet = Append(@, VideoLink(cliMain.row))]
  /\ UNCHANGED <<cli, metadata, cancelled, mainVarsButCancelled>>

\* Line 174: resumable_upload raised; nothing in main catches it.
CliUploadRaises ==
  /\ cliMain.pc = "upload"
  /\ cli.pc = "raised"
  /\ cliMain' = CliMainRaised(cliMain, cli.raised)
  /\ UNCHANGED <<cli, metadata, cancelled, mainVarsButCancelled>>

\* The end of one pass of the loop (lines 190-193): the next row, or the
\* update after the loop.
CliNextRow(m) ==
  IF m.row < m.rows THEN [m EXCEPT !.row = @ + 1, !.pc = "download"]
  ELSE [m EXCEPT !.pc = "update"]

\* A faulty variant of CliMove: the links gathered so far are written to the
\* sheet at the end of every pass of the loop.
CliMoveWritesLinks ==
  /\ cliMain.pc = "move"
  /\ \E get \in RequestOutcomes, update \in RequestOutcomes :
       cliMain' = IF get = "ok" /\ update = "ok"
                  THEN CliNextRow([cliMain EXCEPT
                                     !.moved = @ \cup {cliMain.row},
                                     !.written = cliMain.values_for_sheet])
                  ELSE CliMainRaised(cliMain, IF get = "ok" THEN update ELSE get)
  /\ UNCHANGED <<cli, metadata, cancelled, mainVarsButCancelled>>

\* Lines 177-193: the file's parents are read and the file is moved to the
\* completed folder; get and update are the outcomes of the two requests, and
\* an exception of either leaves main.
CliMove ==
  /\ cliMain.pc = "move"
  /\ \E get \in RequestOutcomes, update \in RequestOutcomes :
       cliMain' = IF get = "ok" /\ update = "ok"
                  THEN CliNextRow([cliMain EXCEPT !.moved = @ \cup {cliMain.row}])
                  ELSE CliMainRaised(cliMain, IF get = "ok" THEN update ELSE get)
  /\ UNCHANGED <<cli, metadata, cancelled, mainVarsButCancelled>>

\* Lines 195-199: the update of range G2:G101 with the links gathered.
CliSheetUpdate ==
  /\ cliMain.pc = "update"
  /\ \E update \in RequestOutcomes :
       cliMain' = IF update = "ok"
                  THEN [cliMain EXCEPT !.pc = "done", !.updates = @ + 1,
                                       !.written = cliMain.values_for_sheet]
                  ELSE CliMainRaised([cliMain EXCEPT !.updates = @ + 1], update)
  /\ UNCHANGED <<cli, metadata, cancelled, mainVarsButCancelled>>

CliMainInit ==
  /\ config = [drive_root_folder_id |-> Root, post_upload_action |-> "rename",
               completed_folder_id |-> "", spreadsheet_id |-> ""]
  /\ drive = [n \in Nodes |->
                [name |-> NodeName(CHOOSE names \in StoreNames : names.f3 = <<"b">>, n),
                 parent |-> Parent0[n], present |-> TRUE]]
  /\ denied = {}
  /\ catalog = <<>>
  /\ issued = 0
  /\ sheetTab = "absent"
  /\ logRows = <<>>
  /\ localFiles = {}
  /\ pc = "start"
  /\ youtube_video_ids = {}
  /\ drive_videos = <<>>
  /\ videos_to_upload = <<>>
  /\ idx = 0
  /\ retry = 0
  /\ sleep_time = 0
  /\ chunkCalls = 0
  /\ sleeps = 0
  /\ progressed = 0
  /\ last_error = NoError
  /\ youtube_video_id = <<>>
  /\ action_details = NoDetails
  /\ outcome = NoOutcome
  /\ downloads = <<>>
  /\ uploads = <<>>
  /\ failed = {}
  /\ postCalls = <<>>
  /\ storeCalls = {}
  /\ cli = NoCli
  /\ metadata = NoMetadata
  /\ cancelled = FALSE
  /\ cliMain \in {CliMainEntry(script, n) : script \in Scripts, n \in 1..MaxRows}

CliMainNext ==
  \/ CliDownloadDone
  \/ CliDownloadFails
  \/ CliChunkProgress
  \/ CliChunkUploaded
  \/ CliChunkNoId
  \/ CliChunkHttpError
  \/ CliChunkOtherError
  \/ CliUploadReturns
  \/ CliUploadRaises
  \/ CliMove
  \/ CliSheetUpdate

SpecCliMain == CliMainInit /\ [][CliMainNext]_vars

-----------------------------------------------------------------------------
(* A run of main whose caller asks for cancellation.  Neither main (lines
   582-656) nor _resumable_upload (lines 482-515) reads any flag: the request
   changes nothing but the flag itself. *)

Cancel ==
  /\ ~cancelled
  /\ pc \notin {"returned", "raised"}
  /\ cancelled' = TRUE
  /\ UNCHANGED <<cli, cliMain, metadata, mainVarsButCancelled>>

CancelInit ==
  /\ Init
  /\ config.drive_root_folder_id = Root
  /\ config.post_upload_action = "rename"
  /\ config.spreadsheet_id = ""
  /\ drive["f3"].name = <<"b">>
  /\ denied = {}
  /\ catalog = <<>>

CancelNext == Next \/ Cancel

SpecCancel == CancelInit /\ [][CancelNext]_vars


-----------------------------------------------------------------------------
(* Properties *)

Ended == pc \in {"returned", "raised"}

\* Ids the Publish API handed out during this run.
RunIds == {FreshIds[k] : k \in 1..issued}

\* C1: a failed download or upload of one item is confined to that item:
\* when main has ended, every item after a failed one was downloaded and
\* uploaded all the same.
C1_FailureConfined ==
  Ended =>
    \A i \in 1..Len(videos_to_upload), j \in 1..Len(videos_to_upload) :
      (i < j /\ videos_to_upload[i].id \in failed) =>
        /\ videos_to_upload[j].id \in Range(downloads)
        /\ \/ videos_to_upload[j].id \in failed
           \/ \E u \in Range(uploads) : u.file = videos_to_upload[j].id

\* C2: with a root folder configured, a failure of an item never leaves main
\* as an exception: once the item loop is entered main does not raise.
C2_NoItemFailureSurfaces ==
  (config.drive_root_folder_id # "" /\ idx >= 1) => pc # "raised"

\* C3: handle_post_upload_action is invoked exactly once for every item whose
\* upload returned a video id, with that file id and that video id, after the
\* upload and never a second time; the one upload not yet followed by its
\* call is the current item's, while main is between the two.
C3_PostActionOnce ==
  /\ \A k \in 1..Len(postCalls) : k <= Len(uploads) /\ postCalls[k] = uploads[k]
  /\ \A k \in 1..Len(postCalls), l \in 1..Len(postCalls) :
       postCalls[k].file = postCalls[l].file => k = l
  /\ Len(uploads) = Len(postCalls) + (IF pc = "action" THEN 1 ELSE 0)

C3_Witness ==
  /\ pc = "returned"
  /\ Len(uploads) >= 2
  /\ postCalls = uploads
  /\ postCalls[2].vid = FreshIds[2]

\* C4 as stated: when main returns, the Logs tab (of a configured
\* spreadsheet) has gained exactly one row per item whose upload succeeded.
C4_OneRowPerUpload ==
  (pc = "returned" /\ config.spreadsheet_id # "") => Len(logRows) = Len(uploads)

UploadIndex(row) ==
  {k \in 1..Len(uploads) :
     uploads[k] = [file |-> row.file_id, vid |-> row.youtube_video_id]}

\* C4 amended: every row of the Logs tab belongs to an item whose upload
\* succeeded in this run, no such item has more than one row, and the rows are
\* in the order of the uploads; a row is missing only for an item whose
\* append did not succeed.
C4_AtMostOneRowPerUpload ==
  /\ \A r \in 1..Len(logRows) : UploadIndex(logRows[r]) # {}
  /\ \A r \in 1..Len(logRows), q \in 1..Len(logRows) :
       (r < q) =>
         \A k \in UploadIndex(logRows[r]), l \in UploadIndex(logRows[q]) : k < l
  /\ Len(logRows) <= Len(uploads)
  /\ config.spreadsheet_id = "" => logRows = <<>>

C4_Witness ==
  /\ pc = "returned"
  /\ Len(uploads) = 3
  /\ Len(logRows) = 2
  /\ logRows[1].file_id = uploads[1].file
  /\ logRows[2].file_id = uploads[3].file

\* The work list the next run computes from the store and the channel as
\* they are now.
NextRunNew ==
  LET found == recursive_drive_search(drive, denied, config.drive_root_folder_id)
      new == NewVideos(found.videos, Range(catalog))
  IN {new[i].id : i \in 1..Len(new)}

\* C5: for an item whose download or upload failed there is no post-action,
\* no Store API request and no audit row; its file is as the scan found it
\* and, if it was new with respect to the channel before this run, it is new
\* again for the next run.
C5_FailedItemUntouched ==
  \A i \in 1..Len(videos_to_upload) :
    LET item == videos_to_upload[i]
    IN item.id \in failed =>
         /\ \A k \in 1..Len(postCalls) : postCalls[k].file # item.id
         /\ \A c \in storeCalls : c.file # item.id
         /\ \A r \in 1..Len(logRows) : logRows[r].file_id # item.id
         /\ drive[item.id] = [name |-> item.name, parent |-> Parent0[item.id],
                              present |-> TRUE]
         /\ IsNew(item, Range(catalog) \ RunIds) => item.id \in NextRunNew

C5_Witness ==
  /\ pc = "raised"
  /\ Len(uploads) >= 1
  /\ Len(logRows) >= 1
  /\ failed # {}
  /\ storeCalls # {}

\* The k-th smallest element of a finite set of integers.
RECURSIVE Nth(_, _)
Nth(S, k) ==
  LET least == CHOOSE x \in S : \A y \in S : x <= y
  IN IF k = 1 THEN least ELSE Nth(S \ {least}, k - 1)

DiffDone == pc \in {"download", "upload", "action", "audit", "cleanup", "returned"}

\* C6: the work list is exactly the subsequence of the scanned store made of
\* the items whose name without extension is not among the published ids
\* read: none missing, none added, scan order kept; with no published id it
\* is the whole scan.
C6_WorkListIsDiff ==
  DiffDone =>
    LET keep == {i \in 1..Len(drive_videos) :
                   splitext(drive_videos[i].name)[1] \notin youtube_video_ids}
    IN /\ Len(videos_to_upload) = Cardinality(keep)
       /\ \A k \in 1..Len(videos_to_upload) :
            videos_to_upload[k] = drive_videos[Nth(keep, k)]
       /\ youtube_video_ids = {} => videos_to_upload = drive_videos

C6_Witness ==
  /\ pc = "download"
  /\ Len(drive_videos) = 3
  /\ Len(videos_to_upload) = 2
  /\ videos_to_upload[1] = drive_videos[1]
  /\ videos_to_upload[2] = drive_videos[3]

\* C7: the key set of the diff holds the id of every video of the channel,
\* so that no file whose name without extension is the id of a video already
\* on the channel is put in the work list.
C7_CatalogComplete ==
  /\ pc \in {"scan", "diff"} => Range(catalog) \subseteq youtube_video_ids
  /\ \A i \in 1..Len(videos_to_upload) :
       splitext(videos_to_upload[i].name)[1] \notin (Range(catalog) \ RunIds)

RECURSIVE Readable(_)
Readable(n) ==
  /\ drive[n].present
  /\ ~Trashed[n]
  /\ \/ drive[n].parent = config.drive_root_folder_id
     \/ /\ drive[n].parent \in Nodes
        /\ drive[n].parent \notin denied
        /\ Readable(drive[n].parent)

ReadableVideos == {n \in Nodes : MimeType[n][1] = "video" /\ Readable(n)}

\* C8: a folder whose listing is refused is skipped: the scan does not raise
\* and returns the videos of all the folders that can be read.
C8_DeniedFolderSkipped ==
  [][pc = "scan" =>
       /\ pc' = "diff"
       /\ {drive_videos'[i].id : i \in 1..Len(drive_videos')} = ReadableVideos]_vars

\* C9: an upload session in which every chunk call fails with a retriable
\* status makes MAX_RETRIES + 1 chunk calls and MAX_RETRIES sleeps, then ends
\* with MaxRetriesExceededError; the loop never goes on beyond that.
C9_RetryBound ==
  /\ pc = "upload" =>
       /\ retry <= MAX_RETRIES
       /\ sleeps = retry
       /\ chunkCalls = retry + progressed
  /\ (pc = "raised" /\ outcome.error = "MaxRetriesExceededError") =>
       /\ retry = MAX_RETRIES + 1
       /\ sleeps = MAX_RETRIES
       /\ chunkCalls = MAX_RETRIES + 1 + progressed
  /\ (pc = "raised" /\ retry > MAX_RETRIES) =>
       outcome.error = "MaxRetriesExceededError"

C9_Witness ==
  /\ pc = "raised"
  /\ outcome.error = "MaxRetriesExceededError"
  /\ progressed = 0
  /\ chunkCalls = 11
  /\ sleeps = 10

\* C10: every backoff delay, taken with retry counter k, is at least 2^k and
\* at most 2^k + 1 seconds, and is not shorter than the delay before it.
C10_BackoffDelays ==
  [][sleeps' = sleeps + 1 =>
       /\ retry' \in 1..MAX_RETRIES
       /\ sleep_time' >= JitterSteps * Pow2(retry')
       /\ sleep_time' <= JitterSteps * (Pow2(retry') + 1)
       /\ sleeps >= 1 => sleep_time' >= sleep_time]_vars

C10_Witness ==
  /\ pc = "upload"
  /\ sleeps = MAX_RETRIES
  /\ sleep_time > JitterSteps * Pow2(MAX_RETRIES)



-----------------------------------------------------------------------------
(* The retry policy of the upload loops *)

\* A delay t (in units of 1/JitterSteps second) lies in [2^k, 2^k + 1) seconds.
InBand(t, k) == JitterSteps * Pow2(k) <= t /\ t < JitterSteps * (Pow2(k) + 1)

C12_FatalRaisedAtOnce ==
  [][ /\ ( /\ pc = "upload"
           /\ chunkCalls' = chunkCalls + 1
           /\ last_error'.type = "HttpError"
           /\ last_error'.status \notin RETRIABLE_STATUS_CODES )
         => /\ pc' = "raised"
            /\ outcome'.error = "HttpError"
            /\ retry' = retry
            /\ sleeps' = sleeps
            /\ sleep_time' = sleep_time
      /\ pc = "raised" => chunkCalls' = chunkCalls ]_vars

\* After two retried failures the third chunk call fails with status 404.
C12_Witness ==
  /\ pc = "raised"
  /\ outcome.error = "HttpError"
  /\ last_error = HttpError(404)
  /\ retry = 2
  /\ sleeps = 2
  /\ chunkCalls = 3

\* C13 as stated: a chunk call that fails with an exception that is not an
\* HTTP status response (a transport error) is counted and retried after a
\* backoff sleep like a retriable status, in _resumable_upload and in
\* resumable_upload of the scripts: it never ends the session by itself.
C13_TransportErrorRetried ==
  [][ /\ ( /\ pc = "upload"
           /\ chunkCalls' = chunkCalls + 1
           /\ last_error' = TransportError )
         => /\ retry' = retry + 1
            /\ retry' <= MAX_RETRIES => (pc' = "upload" /\ sleeps' = sleeps + 1)
      /\ cli'.raised # "Error" ]_vars

\* C14 as stated: _resumable_upload ends only by returning a response with
\* an 'id' (main goes on to the post-upload action with that id) or by raising
\* UploadError, MaxRetriesExceededError or the non-retriable HttpError; a
\* terminal response without 'id' is not retried.
C14_TypedEnds ==
  [][ (pc = "upload" /\ pc' # "upload") =>
        \/ /\ pc' = "action"
           /\ youtube_video_id' = uploads'[Len(uploads')].vid
           /\ youtube_video_id' # <<>>
        \/ /\ pc' = "raised"
           /\ outcome'.error \in {"UploadError", "MaxRetriesExceededError", "HttpError"}
           /\ outcome'.error = "HttpError" =>
                last_error'.status \notin RETRIABLE_STATUS_CODES
           /\ outcome'.error = "UploadError" => (retry' = retry /\ sleeps' = sleeps) ]_vars

\* C15 as stated: handle_post_upload_action never raises, whatever the action
\* and whatever the kind of failure of its Store API requests: main always
\* goes on to the audit row with an info text.
C15_PostActionNeverRaises ==
  [][ pc = "action" =>
        /\ pc' = "audit"
        /\ action_details'.action = config.post_upload_action
        /\ action_details'.info.text # "" ]_vars

\* The configuration of C16: action 'move' without a completed folder id.
MoveUnset == config.post_upload_action = "move" /\ config.completed_folder_id = ""

\* C16: with action 'move' and no completed folder id, handle_post_upload_action
\* issues no Store API request (the store is unchanged), does not raise and
\* returns the info text of the configuration error; main goes on to the
\* audit step with it (a row appended for the item carries that text) and
\* the item is in the list of the batch result.
C16_MoveWithoutFolder ==
  [][ MoveUnset =>
        /\ drive' = drive
        /\ storeCalls' = {}
        /\ pc = "action" =>
             /\ pc' = "audit"
             /\ action_details' =
                  [action |-> "move",
                   info |-> Info("Error: Completed Folder ID is not set", <<>>)]
        /\ pc = "audit" =>
             /\ action_details.info.text = "Error: Completed Folder ID is not set"
             /\ logRows' # logRows =>
                  logRows' = Append(logRows,
                    [file_name |-> video.name, file_id |-> video.id,
                     youtube_video_id |-> youtube_video_id,
                     action |-> "move", info |-> action_details.info])
        /\ pc' = "returned" =>
             \A k \in 1..Len(uploads') :
               \E i \in 1..Len(outcome'.uploaded) :
                 outcome'.uploaded[i].id = uploads'[k].file ]_vars

\* Three items were uploaded with 'move' and no completed folder id: nothing
\* was asked of the store, every item has its row and is in the result.
C16_Witness ==
  /\ MoveUnset
  /\ pc = "returned"
  /\ Len(uploads) = 3
  /\ Len(postCalls) = 3
  /\ storeCalls = {}
  /\ Len(logRows) = 3
  /\ \A r \in 1..3 : logRows[r].info.text = "Error: Completed Folder ID is not set"
  /\ Len(outcome.uploaded) = 3

\* The configuration of C17: a post-upload action that is none of rename,
\* delete and move.
ActionUnknown == config.post_upload_action \notin {"rename", "delete", "move"}

WorkItem(f) ==
  CHOOSE item \in Range(videos_to_upload) : item.id = f

\* C18: after a successful rename of an item uploaded as P, the file's name
\* is P followed by the extension of its original name, the stem of the new
\* name is P whatever the original name was, and, P being in the catalog, the
\* file is not in the work list the next run computes.
C18_RenamedNotNew ==
  config.post_upload_action = "rename" =>
    \A k \in 1..Len(uploads) :
      LET P == uploads[k].vid
          original == WorkItem(uploads[k].file).name
          new_name == drive[uploads[k].file].name
      IN new_name # original =>
           /\ new_name = P \o splitext(original)[2]
           /\ splitext(new_name)[1] = P
           /\ P \in Range(catalog)
           /\ uploads[k].file \notin NextRunNew

\* Three files were uploaded and renamed, one of them had no extension and
\* one only a trailing dot.
C18_Witness ==
  /\ config.post_upload_action = "rename"
  /\ pc = "returned"
  /\ Len(uploads) = 3
  /\ \A k \in 1..3 : drive[uploads[k].file].name # WorkItem(uploads[k].file).name
  /\ \E k \in 1..3 : drive[uploads[k].file].name = uploads[k].vid

\* What a second run started now can read of the catalog: get_youtube_videos
\* returns the pages it read before a failure.
SecondRunKeySets ==
  {Range(get_youtube_videos(catalog, channel, failAt)) :
     channel \in {"found", "missing", "error"},
     failAt \in 0..NumPlaylistPages(catalog)}

\* The file ids of the work list a second run started now computes when it
\* has read the ids keys from the catalog.
SecondRunWorkList(keys) ==
  LET found == recursive_drive_search(drive, denied, config.drive_root_folder_id)
      new == NewVideos(found.videos, keys)
  IN {new[i].id : i \in 1..Len(new)}

\* The files this run uploaded that are still in the store.
UploadedAndPresent ==
  {uploads[k].file : k \in {j \in 1..Len(uploads) : drive[uploads[j].file].present}}

\* C19 as stated: after a run with action 'delete' has returned, a second run
\* (the catalog being changed by nothing else) has an empty work list.
C19_SecondRunEmpty ==
  (config.post_upload_action = "delete" /\ pc = "returned") =>
    SecondRunWorkList(Range(catalog)) = {}

\* C19, amended: with action 'delete', an item the run uploaded and deleted
\* is in no work list a second run can compute; when the run has returned, a
\* second run that reads the whole catalog finds only items that were uploaded
\* but whose delete request failed, so none when every delete succeeded.
C19_SecondRunAfterDelete ==
  config.post_upload_action = "delete" =>
    /\ (pc \in {"audit", "cleanup"} /\ action_details.info.text = "File deleted") =>
         \A keys \in SecondRunKeySets : video.id \notin SecondRunWorkList(keys)
    /\ pc = "returned" =>
         SecondRunWorkList(Range(catalog)) \subseteq UploadedAndPresent

\* The run uploaded and deleted three files and returned: whatever a second
\* run reads of the catalog, its work list is empty.
C19_Witness ==
  /\ config.post_upload_action = "delete"
  /\ pc = "returned"
  /\ Len(uploads) = 3
  /\ UploadedAndPresent = {}
  /\ \A keys \in SecondRunKeySets : SecondRunWorkList(keys) = {}

\* C20: _ensure_log_sheet_exists creates the Logs tab and writes its header
\* only when no tab titled 'Logs' exists, and does so when its requests
\* succeed; when the tab exists it writes nothing, so every call made after
\* a call that left a tab leaves the tab as it is; no call touches the rows
\* already appended.
C20_EnsureOnlyWhenAbsent ==
  [][ (pc = "audit" /\ config.spreadsheet_id # "") =>
        /\ sheetTab # "absent" => sheetTab' = sheetTab
        /\ sheetTab' # sheetTab => (sheetTab = "absent" /\ sheetTab' \in {"bare", "header"})
        /\ SubSeq(logRows', 1, Len(logRows)) = logRows
        /\ sheetTab = "absent" =>
             _ensure_log_sheet_exists(sheetTab, config, "ok", "ok", "ok")
               = [tab |-> "header", raised |-> FALSE]
        /\ sheetTab # "absent" =>
             \A get \in RequestOutcomes, add \in RequestOutcomes,
                header \in RequestOutcomes :
               _ensure_log_sheet_exists(sheetTab, config, get, add, header).tab = sheetTab ]_vars

\* The first call created the tab but its header write failed; the calls for
\* the second and third item found the tab and wrote nothing, and the rows of
\* all three items were appended.
C20_Witness ==
  /\ pc = "returned"
  /\ sheetTab = "bare"
  /\ Len(uploads) = 3
  /\ Len(logRows) = 3

\* C21: whenever a row has been appended to the Logs tab, the tab has the
\* 7-column header as its first row, also when an earlier call created the
\* tab and its header write failed.
C21_HeaderBeforeRows ==
  Len(logRows) > 0 => sheetTab = "header"

\* C22: _append_log_entry never raises, whatever the outcome of its append
\* request: _log_upload_to_sheet raises only when ensuring the tab raised, and
\* a failed append leaves the rows as they are.  The item stays uploaded: when
\* main has returned, every item of the work list was uploaded and had its
\* post-upload action called, all of them are in the result, and no local
\* file is left.
C22_AppendNeverRaises ==
  /\ (pc = "audit" /\ config.spreadsheet_id # "") =>
       \A get \in RequestOutcomes, add \in RequestOutcomes,
          header \in RequestOutcomes, append \in RequestOutcomes :
         LET ensured == _ensure_log_sheet_exists(sheetTab, config, get, add, header)
             logged == _log_upload_to_sheet(sheetTab, logRows, config,
                         [file_name |-> video.name, file_id |-> video.id,
                          youtube_video_id |-> youtube_video_id,
                          action_details |-> action_details],
                         get, add, header, append)
         IN /\ logged.raised = ensured.raised
            /\ (~ensured.raised /\ append # "ok") =>
                 (logged.rows = logRows /\ logged.tab = ensured.tab)
  /\ (pc = "returned" /\ outcome.result = "All new videos have been processed") =>
       /\ localFiles = {}
       /\ outcome.uploaded = videos_to_upload
       /\ Len(uploads) = Len(videos_to_upload)
       /\ Len(postCalls) = Len(videos_to_upload)
       /\ \A k \in 1..Len(uploads) :
            /\ uploads[k].file = videos_to_upload[k].id
            /\ postCalls[k].file = videos_to_upload[k].id

\* Three items were uploaded in a run whose Logs tab has its header, and the
\* append request of each failed: no row was added, and main returned the
\* three items.
C22_Witness ==
  /\ pc = "returned"
  /\ config.spreadsheet_id # ""
  /\ sheetTab = "header"
  /\ logRows = <<>>
  /\ Len(uploads) = 3
  /\ Len(outcome.uploaded) = 3
  /\ localFiles = {}

\* C23: no failure met while ensuring the log schema, of any kind, is raised
\* out of _log_upload_to_sheet.
C23_EnsureNeverRaises ==
  (pc = "audit" /\ config.spreadsheet_id # "") =>
    \A get \in RequestOutcomes, add \in RequestOutcomes, header \in RequestOutcomes :
      ~_log_upload_to_sheet(sheetTab, logRows, config,
         [file_name |-> video.name, file_id |-> video.id,
          youtube_video_id |-> youtube_video_id,
          action_details |-> action_details],
         get, add, header, "ok").raised

\* C24: with no drive root folder id main ends with the configuration error
\* before any work: the catalog is not listed, the store is not enumerated,
\* nothing is downloaded or uploaded, no post-upload action is called and
\* nothing is written to the audit log.
C24_NoRootNoWork ==
  config.drive_root_folder_id = "" =>
    /\ pc \in {"start", "raised"}
    /\ pc = "raised" => outcome = Raised("ValueError")
    /\ youtube_video_ids = {} /\ drive_videos = <<>> /\ videos_to_upload = <<>>
    /\ downloads = <<>> /\ uploads = <<>> /\ postCalls = <<>> /\ failed = {}
    /\ storeCalls = {} /\ issued = 0 /\ localFiles = {}
    /\ chunkCalls = 0
    /\ logRows = <<>> /\ sheetTab \in {"absent", "header"}
    /\ \A n \in Nodes : drive[n].present /\ drive[n].parent = Parent0[n]

\* main was called without a root folder id, on a spreadsheet that has no
\* Logs tab, and has raised ValueError.
C24_Witness ==
  /\ config.drive_root_folder_id = ""
  /\ pc = "raised"
  /\ outcome.error = "ValueError"
  /\ sheetTab = "absent"

\* The position of file id in the work list, 0 when it is not in it.
WorkListIndex(id) ==
  LET at == {k \in 1..Len(videos_to_upload) : videos_to_upload[k].id = id}
  IN IF at = {} THEN 0 ELSE CHOOSE k \in at : TRUE

\* C25: the batch is strictly sequential.  Each item goes through download,
\* upload, post-upload action and audit append in this order, the items in
\* work-list order: while item idx is at some step, every earlier item has
\* been through all of its steps and no later item has been through any; the
\* audit rows are in work-list order.
C25_StrictlySequential ==
  pc \in {"download", "upload", "action", "audit", "cleanup"} =>
    LET before == idx - 1
    IN /\ idx \in 1..Len(videos_to_upload)
       /\ Len(downloads) = (IF pc = "download" THEN before ELSE idx)
       /\ Len(uploads) = (IF pc \in {"download", "upload"} THEN before ELSE idx)
       /\ Len(postCalls) = (IF pc \in {"audit", "cleanup"} THEN idx ELSE before)
       /\ \A k \in 1..Len(downloads) : downloads[k] = videos_to_upload[k].id
       /\ \A k \in 1..Len(uploads) : uploads[k].file = videos_to_upload[k].id
       /\ \A k \in 1..Len(postCalls) : postCalls[k].file = videos_to_upload[k].id
       /\ \A k \in 1..Len(logRows) :
            /\ WorkListIndex(logRows[k].file_id) \in
                 1..(IF pc = "cleanup" THEN idx ELSE before)
            /\ k > 1 => WorkListIndex(logRows[k - 1].file_id)
                          < WorkListIndex(logRows[k].file_id)

\* The third item is about to be downloaded: the first two have been
\* downloaded, uploaded, actioned and logged, in this order.
C25_Witness ==
  /\ pc = "download"
  /\ idx = 3
  /\ Len(downloads) = 2 /\ Len(uploads) = 2 /\ Len(postCalls) = 2
  /\ Len(logRows) = 2
  /\ logRows[1].file_id = videos_to_upload[1].id
  /\ logRows[2].file_id = videos_to_upload[2].id

\* C27: the batch can be cancelled from outside at item granularity: once
\* the cancellation flag is set, no further item of the work list is started
\* (and the transfer in flight stops after its current chunk call).
C27_CancelStopsBatch ==
  [][ cancelled => idx' = idx ]_vars

\* The nodes of the subtree under the root: present, not trashed, and in the
\* root or in a folder of the subtree.
RECURSIVE InSubtree(_)
InSubtree(n) ==
  /\ drive[n].present
  /\ ~Trashed[n]
  /\ \/ drive[n].parent = config.drive_root_folder_id
     \/ /\ drive[n].parent \in Nodes
        /\ MimeType[drive[n].parent] = FolderMimeType
        /\ InSubtree(drive[n].parent)

\* C28: for every folder tree, recursive_drive_search returns every
\* non-trashed video node of the subtree under the root exactly once, whatever
\* the number of pages of a folder and the depth of the folders, and returns
\* no folder and no file that is not a video; it returns whenever no list
\* request is refused.
C28_SearchExact ==
  /\ pc = "diff" =>
       /\ \A n \in Nodes :
            Cardinality({i \in 1..Len(drive_videos) : drive_videos[i].id = n})
              = (IF MimeType[n][1] = "video" /\ InSubtree(n) THEN 1 ELSE 0)
       /\ \A i \in 1..Len(drive_videos) :
            /\ drive_videos[i].id \in Nodes
            /\ drive_videos[i].mimeType = MimeType[drive_videos[i].id]
            /\ drive_videos[i].mimeType # FolderMimeType
            /\ drive_videos[i].mimeType[1] = "video"
  /\ pc = "raised" => \E n \in denied : InSubtree(n)
  /\ (pc = "scan" /\ ~\E n \in denied : InSubtree(n)) =>
       recursive_drive_search(drive, denied, config.drive_root_folder_id).ok

\* Folder d2 is in folder d1, d1 is in the root, and the five files are in
\* d2, whose listing takes three pages: the search has returned the three
\* videos that are not trashed.
C28_Witness ==
  /\ pc = "diff"
  /\ drive["d1"].parent = Root
  /\ drive["d2"].parent = "d1"
  /\ \A n \in Nodes \ {"d1", "d2"} : drive[n].parent = "d2"
  /\ Len(drive_videos) = 3

\* C29: when the work list is empty main returns 'No new videos to upload'
\* with status 200 and has downloaded nothing, uploaded nothing, changed
\* nothing in the store and written nothing to the audit log; it returns
\* 'All new videos have been processed' only when the work list was not empty.
C29_EmptyWorkList ==
  /\ (pc = "returned" /\ videos_to_upload = <<>>) =>
       /\ outcome = Returned("No new videos to upload", <<>>)
       /\ outcome.status = 200
       /\ downloads = <<>> /\ uploads = <<>> /\ failed = {} /\ localFiles = {}
       /\ chunkCalls = 0 /\ issued = 0 /\ catalog \in Catalogs
       /\ postCalls = <<>> /\ storeCalls = {}
       /\ \E names \in StoreNames :
            \A n \in Nodes :
              drive[n] = [name |-> NodeName(names, n), parent |-> Parent0[n],
                          present |-> TRUE]
       /\ logRows = <<>> /\ sheetTab \in {"absent", "header"}
  /\ outcome.result = "All new videos have been processed" =>
       /\ videos_to_upload # <<>>
       /\ outcome.uploaded = videos_to_upload

\* The three videos of the store are on the channel already: the scan found
\* them, the work list is empty and main has returned.
C29_Witness ==
  /\ pc = "returned"
  /\ Len(drive_videos) = 3
  /\ videos_to_upload = <<>>
  /\ outcome.result = "No new videos to upload"
  /\ config.spreadsheet_id # ""

\* C30: in resumable_upload of the command-line scripts the retry counter is
\* incremented and a sleep is taken only when the chunk call just made failed
\* with a retriable error: a chunk call that returns non-terminal progress
\* leaves the counter as it is and causes no sleep, also after an earlier
\* retried failure.
C30_RetryOnlyOnFailure ==
  [][ (cli.pc = "upload" /\ cli'.progressed = cli.progressed + 1) =>
        /\ cli'.retry = cli.retry
        /\ cli'.sleeps = cli.sleeps
        /\ cli'.pc = "upload" ]_vars

\* Two characters are the same letter, whatever their case.
SameLetter(x, y) ==
  \/ x = y
  \/ x \in DOMAIN Lower /\ Lower[x] = y
  \/ y \in DOMAIN Lower /\ Lower[y] = x

EqualsIgnoringCase(a, b) ==
  Len(a) = Len(b) /\ \A i \in 1..Len(a) : SameLetter(a[i], b[i])

\* C31: the made-for-kids flag of the insert body is true iff the file has a
\* 'madeForKids' property that equals TRUE ignoring case, so it is false when
\* the property or the whole property map is missing; the description is the
\* file's own description when that is not empty, and the configured default
\* description otherwise.
C31_MetadataResolved ==
  metadata.pc = "resolved" =>
    LET v == metadata.video
        body == metadata.body
    IN /\ body.status.selfDeclaredMadeForKids
            <=> /\ "properties" \in v.keys
                /\ "madeForKids" \in v.properties.keys
                /\ EqualsIgnoringCase(v.properties.madeForKids, <<"T", "R", "U", "E">>)
       /\ "properties" \notin v.keys => ~body.status.selfDeclaredMadeForKids
       /\ body.snippet.description =
            (IF "description" \in v.keys /\ v.description # <<>>
             THEN v.description
             ELSE metadata.default_video_description)

\* A file whose 'madeForKids' property is spelled 'True' and whose
\* description is empty: the flag is set and the description is the default.
C31_Witness ==
  /\ metadata.pc = "resolved"
  /\ metadata.video.keys = {"description", "properties"}
  /\ metadata.video.properties.madeForKids = <<"T", "r", "u", "e">>
  /\ metadata.video.description = <<>>
  /\ metadata.body.status.selfDeclaredMadeForKids
  /\ metadata.body.snippet.description = <<"t">>

\* C32: in one session of _resumable_upload the retry counter starts at 0,
\* goes up by one with each retriable failure and with nothing else, and is
\* not reset by a chunk call that goes through: the session ends with
\* MaxRetriesExceededError on its (MAX_RETRIES + 1)-th retriable failure,
\* whatever went through in between.  The counter belongs to the session:
\* the session of every item starts at 0.
C32_RetryCountsSession ==
  [][ /\ (pc # "upload" /\ pc' = "upload") => retry' = 0
      /\ pc = "upload" =>
           /\ retry' \in {retry, retry + 1} \/ (pc' = "action" /\ retry' = 0)
           /\ progressed' = progressed + 1 => (retry' = retry /\ pc' = "upload")
           /\ retry' = retry + 1 =>
                /\ chunkCalls' = chunkCalls + 1
                /\ progressed' = progressed
                /\ last_error'.type = "HttpError"
                /\ Retriable(last_error'.status)
           /\ (sleeps' = sleeps + 1 \/ outcome'.error = "MaxRetriesExceededError")
                => retry' = retry + 1
           /\ retry' = retry + 1 =>
                IF retry = MAX_RETRIES
                THEN pc' = "raised" /\ outcome'.error = "MaxRetriesExceededError"
                ELSE pc' = "upload" ]_vars

\* The session of the second item ended with MaxRetriesExceededError on its
\* eleventh retriable failure, one chunk call having gone through.
C32_Witness ==
  /\ pc = "raised"
  /\ outcome.error = "MaxRetriesExceededError"
  /\ idx = 2
  /\ retry = MAX_RETRIES + 1
  /\ progressed = 1
  /\ chunkCalls = MAX_RETRIES + 2

\* The file ids of a sequence of listing entries.
Ids(files) == {files[i].id : i \in 1..Len(files)}

\* C33: whenever main returns 'All new videos have been processed', every
\* item of the work list was downloaded, was uploaded (its video is on the
\* channel) and had its post-upload action called with the id of its video,
\* and no item failed: the 'uploaded' list of the result is exactly the items
\* whose upload succeeded.
C33_ProcessedMeansUploaded ==
  outcome.result = "All new videos have been processed" =>
    /\ pc = "returned"
    /\ failed = {}
    /\ Ids(outcome.uploaded) = {uploads[k].file : k \in 1..Len(uploads)}
    /\ Len(outcome.uploaded) = Len(uploads)
    /\ \A i \in 1..Len(outcome.uploaded) :
         LET id == outcome.uploaded[i].id
         IN /\ id \in Range(downloads)
            /\ \E k \in 1..Len(uploads) :
                 /\ uploads[k].file = id
                 /\ uploads[k].vid \in Range(catalog)
                 /\ [file |-> id, vid |-> uploads[k].vid] \in Range(postCalls)

\* main returned 'processed' for a work list of two items, the third video
\* of the store being on the channel already.
C33_Witness ==
  /\ pc = "returned"
  /\ outcome.result = "All new videos have been processed"
  /\ Len(outcome.uploaded) = 2
  /\ Len(drive_videos) = 3
  /\ Len(uploads) = 2

\* C34: main of the command-line scripts writes the links to the sheet with
\* one update, sent after the last row has been processed, the i-th link
\* written being that of the i-th row; when the processing of a row fails,
\* no link is written for any row of the run, the rows already uploaded and
\* moved included.
C34_LinksAllOrNothing ==
  /\ cliMain.updates <= 1
  /\ cliMain.updates = 1 =>
       /\ cliMain.pc \in {"done", "raised"}
       /\ cliMain.row = cliMain.rows
       /\ cliMain.moved = 1..cliMain.rows
       /\ Len(cliMain.values_for_sheet) = cliMain.rows
  /\ cliMain.written # <<>> =>
       /\ cliMain.pc = "done"
       /\ Len(cliMain.written) = cliMain.rows
       /\ \A i \in 1..cliMain.rows : cliMain.written[i] = VideoLink(i)
  /\ cliMain.pc = "done" => cliMain.written = cliMain.values_for_sheet
  /\ cliMain.pc = "raised" => cliMain.written = <<>>

\* The first row was uploaded and its file moved, the upload of the second
\* row ended with an exception: no link has been written.
C34_Witness ==
  /\ cliMain.pc = "raised"
  /\ cliMain.row = 2
  /\ cliMain.moved = {1}
  /\ cliMain.values_for_sheet = <<VideoLink(1)>>
  /\ cli.pc = "raised"
  /\ cliMain.updates = 0
  /\ cliMain.written = <<>>

\* C35: the local copy of an item is removed after the item's audit step and
\* before the download of the next item starts: the copy of the item in hand
\* is there from its download to the end of its audit step, no other local
\* file exists at any time, and none is left when main returns a result.
C35_OneLocalFile ==
  /\ Cardinality(localFiles) <= 1
  /\ pc \in {"upload", "action", "audit", "cleanup"} => localFiles = {video.name}
  /\ pc \in {"start", "catalog", "scan", "diff", "download"} => localFiles = {}
  /\ outcome.kind = "returned" => localFiles = {}

\* The first two items have been downloaded, uploaded and logged, and the
\* download of the third is about to start: there is no local file.
C35_Witness ==
  /\ pc = "download"
  /\ idx = 3
  /\ Len(downloads) = 2
  /\ config.spreadsheet_id # ""
  /\ Len(logRows) = 2
  /\ localFiles = {}

====
